---- MODULE Spec2Model ----
(***************************************************************************)
(* Model of pytools/fcrepo_to_bulkrax.py: the relationship indices         *)
(* (PermissionsMapping, EmbargoMapping, ParentChildMapping), the resource  *)
(* model (Resource.make_resource, FileSet.make_fileset, format_row with    *)
(* FedoraGraph.format_for_bulkrax) and the batch assembler                 *)
(* FedoraGraph.prepare_import_batches driven by FedoraGraph.prepare_imports.*)
(*                                                                         *)
(* A URI is a sequence of tokens; "/" , "#" and ";" are the separator       *)
(* characters the code splits and joins on.  A Python object is a function *)
(* from attribute names to values: an attribute that was never set is not  *)
(* in its DOMAIN.                                                          *)
(***************************************************************************)
EXTENDS Integers, Sequences, FiniteSets, TLC

(***************************************************************************)
(* Bounds of the model                                                     *)
(***************************************************************************)
MaxBatchSize == 2
MaxResources == 3
MaxEdges == 2
MaxFilesets == 2
MaxTime == 2
MaxCopyFailures == 1
MaxGroups == 3
MaxCopyFiles == 21
MaxTriples == 4
MaxBatches == 6

\* the size of a sub-group of the copier, line 447
SubGroupSize == 10

(***************************************************************************)
(* The universe of URIs in the graph store                                 *)
(***************************************************************************)
uriC == <<"/", "c">>
uriD == <<"/", "d">>
uriW == <<"/", "w">>
uriWX == <<"/", "w", "x">>
uriY == <<"/", "y">>
uriZ == <<"/", "z", "/">>
groupPublic == <<"/", "group", "#", "public">>
groupRegistered == <<"/", "group", "#", "registered">>
groupAdmin == <<"/", "group", "#", "admin">>

CollectionUris == {uriC, uriD}
WorkUris == {uriW, uriWX, uriY}

MEMBERSHIP_CHILD == "memberOf"
HAS_MODEL == "hasModel"

(***************************************************************************)
(* String primitives                                                       *)
(***************************************************************************)
\* code point order of the tokens, as SPARQL's "order by ?s" compares them
Alphabet == <<"#", "/", ";", "admin", "c", "d", "f", "g", "group", "public",
              "registered", "w", "x", "y", "z">>

CharRank(ch) == CHOOSE i \in 1..Len(Alphabet) : Alphabet[i] = ch

RECURSIVE StrLess(_, _)
StrLess(a, b) ==
    IF b = <<>> THEN FALSE
    ELSE IF a = <<>> THEN TRUE
    ELSE IF Head(a) = Head(b) THEN StrLess(Tail(a), Tail(b))
    ELSE CharRank(Head(a)) < CharRank(Head(b))

\* Python's "a in b" on two strings
Contains(a, b) ==
    \E i \in 0..(Len(b) - Len(a)) : SubSeq(b, i + 1, i + Len(a)) = a

\* s.split(sep)[-1]
LastAfter(s, sep) ==
    LET idx == {i \in 1..Len(s) : s[i] = sep}
    IN IF idx = {} THEN s
       ELSE LET last == CHOOSE i \in idx : \A j \in idx : j <= i
            IN SubSeq(s, last + 1, Len(s))

\* uri_to_id on one string
uri_to_id(uri) == LastAfter(uri, "/")

\* uri_to_id on a list of strings
RECURSIVE uri_to_id_list(_)
uri_to_id_list(uris) ==
    IF uris = <<>> THEN <<>>
    ELSE <<uri_to_id(Head(uris))>> \o uri_to_id_list(Tail(uris))

\* sep.join(list)
RECURSIVE Join(_, _)
Join(sep, list) ==
    IF list = <<>> THEN <<>>
    ELSE IF Len(list) = 1 THEN Head(list)
    ELSE Head(list) \o sep \o Join(sep, Tail(list))

\* s.split(sep) for a one-character separator
RECURSIVE Split(_, _)
Split(s, sep) ==
    LET idx == {i \in 1..Len(s) : s[i] = sep}
    IN IF idx = {} THEN <<s>>
       ELSE LET first == CHOOSE i \in idx : \A j \in idx : i <= j
            IN <<SubSeq(s, 1, first - 1)>> \o Split(SubSeq(s, first + 1, Len(s)), sep)

\* the elements of a set of strings as a list in ascending order
RECURSIVE SortedUris(_)
SortedUris(S) ==
    IF S = {} THEN <<>>
    ELSE LET m == CHOOSE x \in S : \A y \in S : y = x \/ StrLess(x, y)
         IN <<m>> \o SortedUris(S \ {m})

Range(s) == {s[i] : i \in 1..Len(s)}

\* obj.attr = value
SetAttr(obj, attr, value) == (attr :> value) @@ obj

HasAttr(obj, attr) == attr \in DOMAIN obj

(***************************************************************************)
(* Resource model                                                          *)
(***************************************************************************)
\* FedoraGraph.mapping after __init__: the loaded field mapping plus the
\* synthetic member-of entry
mapping ==
    (HAS_MODEL :> <<"model", FALSE>>) @@ (MEMBERSHIP_CHILD :> <<"parents", TRUE>>)

\* FedoraGraph.mapping after __init__ when the mapping file has no row for
\* the model predicate and no row for any other predicate of the store
mapping_without_model == (MEMBERSHIP_CHILD :> <<"parents", TRUE>>)

\* the loop of Resource.make_resource over the triples of one subject
RECURSIVE make_kwargs(_, _, _)
make_kwargs(kwargs, triples, map) ==
    IF triples = <<>> THEN kwargs
    ELSE LET triple == Head(triples)
             next == IF triple.p \in DOMAIN map
                     THEN LET field_name == map[triple.p][1]
                              multiple == map[triple.p][2]
                          IN IF multiple
                             THEN SetAttr(kwargs, field_name,
                                      (IF HasAttr(kwargs, field_name)
                                       THEN kwargs[field_name] ELSE <<>>)
                                      \o <<triple.o>>)
                             ELSE SetAttr(kwargs, field_name, triple.o)
                     ELSE kwargs
         IN make_kwargs(next, Tail(triples), map)

\* mutant: the triples are read from the last to the first
make_resource_reversed(id, triples, map) ==
    LET admin_set == triples[Len(triples)].adminSet
    IN make_kwargs([id |-> id, admin_set |-> admin_set],
                   [i \in 1..Len(triples) |-> triples[Len(triples) + 1 - i]], map)

make_resource(id, triples, map) ==
    LET admin_set == triples[Len(triples)].adminSet
    IN make_kwargs([id |-> id, admin_set |-> admin_set], triples, map)

\* FileSet.make_fileset: the dataclass built from one row of the fileset query
make_fileset(triple) ==
    [parents |-> triple.work, id |-> triple.fileset, file |-> triple.filename,
     title |-> triple.filename, file_uri |-> triple.file_uri, model |-> "FileSet"]

\* FedoraGraph.format_for_bulkrax, no field being pipe-delimited; isList is
\* isinstance(value, list)

format_for_bulkrax(key, value, isList) ==
    IF key \in {"id", "parents"}
    THEN LET v == IF isList THEN Join(<<";">>, uri_to_id_list(value))
                  ELSE uri_to_id(value)
         IN IF key = "id" THEN <<"bulkrax_identifier", v>> ELSE <<key, v>>
    ELSE <<key, value>>

\* Resource.format_row / FileSet.format_row: every attribute but the excluded
\* one, passed through the formatter
format_row(obj) ==
    LET excluded == IF obj.model = "FileSet" THEN "file_uri" ELSE "admin_set"
        keys == DOMAIN obj \ {excluded}
        isList(k) == k = "parents" /\ obj.model # "FileSet"
        out(k) == format_for_bulkrax(k, obj[k], isList(k))
    IN [c \in {out(k)[1] : k \in keys} |->
          LET src == CHOOSE k \in keys : out(k)[1] = c IN out(src)[2]]

(***************************************************************************)
(* Relationship indices                                                    *)
(***************************************************************************)
\* PermissionsMapping.make_mapping: groupby over consecutive rows with the same
\* resource; a key met again starts from an empty list
RECURSIVE permissions_make_mapping(_, _, _)
permissions_make_mapping(map, results, prev) ==
    IF results = <<>> THEN map
    ELSE LET r == Head(results)
             k == r.resource
             start == IF prev # <<k>> THEN SetAttr(map, k, <<>>) ELSE map
         IN permissions_make_mapping(SetAttr(start, k, start[k] \o <<r.agent>>),
                                     Tail(results), <<k>>)

\* mutant: the first group of the list decides
permission_visibility_first_group(visibility, permission) ==
    IF permission = <<>> THEN visibility
    ELSE LET group_id == LastAfter(uri_to_id(Head(permission)), "#")
         IN IF group_id = <<"public">> THEN "open"
            ELSE IF group_id = <<"registered">> THEN "restricted"
            ELSE visibility

\* the match statement of PermissionsMapping.update_resource over the groups
RECURSIVE permission_visibility(_, _)
permission_visibility(visibility, permission) ==
    IF permission = <<>> THEN visibility
    ELSE LET group_id == LastAfter(uri_to_id(Head(permission)), "#")
         IN IF group_id = <<"public">> THEN "open"
            ELSE permission_visibility(
                     IF group_id = <<"registered">> THEN "restricted" ELSE visibility,
                     Tail(permission))

\* PermissionsMapping.update_resource
permissions_update_resource(index, resource) ==
    IF resource.id \in DOMAIN index /\ index[resource.id] # <<>>
    THEN SetAttr(resource, "visibility",
                 permission_visibility("private", index[resource.id]))
    ELSE resource

\* EmbargoMapping.make_mapping: a later record for the same resource replaces
\* the earlier one
RECURSIVE embargo_make_mapping(_, _)
embargo_make_mapping(map, results) ==
    IF results = <<>> THEN map
    ELSE LET r == Head(results)
         IN embargo_make_mapping(
                SetAttr(map, r.resource,
                        [visibility_during_embargo |-> r.visibilityDuringEmbargo,
                         visibility_after_embargo |-> r.visibilityAfterEmbargo,
                         release_date |-> r.releaseDate,
                         visibility |-> "embargo"]),
                Tail(results))

\* is_active_embargo, clock being the value datetime.now() returns
is_active_embargo(record, clock) == record.release_date >= clock

\* mutant: a resource without a record is given the visibility open
embargo_update_resource_default(index, resource, clock) ==
    IF resource.id \in DOMAIN index
    THEN LET embargo == index[resource.id]
         IN IF is_active_embargo(embargo, clock)
            THEN embargo @@ resource
            ELSE SetAttr(resource, "visibility", embargo.visibility_after_embargo)
    ELSE SetAttr(resource, "visibility", "open")

\* EmbargoMapping.update_resource
embargo_update_resource(index, resource, clock) ==
    IF resource.id \in DOMAIN index
    THEN LET embargo == index[resource.id]
         IN IF is_active_embargo(embargo, clock)
            THEN embargo @@ resource
            ELSE SetAttr(resource, "visibility", embargo.visibility_after_embargo)
    ELSE resource

\* ParentChildMapping.make_mapping
RECURSIVE parents_make_mapping(_, _)
parents_make_mapping(map, results) ==
    IF results = <<>> THEN map
    ELSE LET row == Head(results)
             old == IF row.resource \in DOMAIN map THEN map[row.resource] ELSE <<>>
         IN parents_make_mapping(SetAttr(map, row.resource, old \o <<row.parent>>),
                                 Tail(results))

\* mutant: the entry is read with a subscript, which makes the default entry
defaultdict_get_subscript(index, key) ==
    IF key \in DOMAIN index THEN index ELSE SetAttr(index, key, <<>>)

\* the parent/child mapping, a defaultdict(list), after its entry for a key
\* was read with .get at line 182: .get makes no entry for a missing key
defaultdict_get(index, key) == index

\* ParentChildMapping.update_resource
parents_update_resource(index, resource) ==
    IF resource.id \in DOMAIN index /\ index[resource.id] # <<>>
    THEN SetAttr(resource, "parents", index[resource.id])
    ELSE resource

EmptyMap == [k \in {} |-> <<>>]

(***************************************************************************)
(* The graph store and its queries                                         *)
(***************************************************************************)
\* the name of the i-th fileset of the store: f1, f2, ...
FilesetToken(i) == "f" \o ToString(i)

\* rows of the fileset query for the given owners (one fileset per entry)
FilesetRows(owners) ==
    [i \in 1..Len(owners) |->
        [work |-> owners[i],
         fileset |-> <<"/", FilesetToken(i)>>,
         filename |-> <<FilesetToken(i), ".doc">>,
         file_uri |-> <<"/", FilesetToken(i), "/", "files", "/", "bin">>]]

\* FedoraGraph.get_resources for one model: subjects in ascending order, each
\* made from its group of triples
RECURSIVE resources_of(_, _, _, _, _)
resources_of(subjects, model, memberOf, adminSet, map) ==
    IF subjects = <<>> THEN <<>>
    ELSE LET s == Head(subjects)
             ps == SortedUris({e[2] : e \in {x \in memberOf : x[1] = s}})
             triples ==
                 <<[p |-> HAS_MODEL, o |-> model, adminSet |-> adminSet],
                   [p |-> "title", o |-> <<"t">>, adminSet |-> adminSet]>>
                 \o [i \in 1..Len(ps) |->
                        [p |-> MEMBERSHIP_CHILD, o |-> ps[i], adminSet |-> adminSet]]
         IN <<make_resource(s, triples, map)>>
            \o resources_of(Tail(subjects), model, memberOf, adminSet, map)

get_resources(g, model) ==
    IF model = "Collection"
    THEN resources_of(SortedUris(g.collections), "Collection", g.memberOf, "None",
                      g.mapping)
    ELSE resources_of(SortedUris(g.works), "Work", g.memberOf, "Default", g.mapping)

\* FedoraGraph.get_filesets
get_filesets(g) == [i \in 1..Len(g.filesets) |-> make_fileset(g.filesets[i])]

get_permissions(g) == permissions_make_mapping(EmptyMap, g.permissions, <<>>)

get_embargos(g) == embargo_make_mapping(EmptyMap, g.embargos)

get_parents(g) == parents_make_mapping(EmptyMap, g.hasMember)

(***************************************************************************)
(* Graph stores the runs start from                                        *)
(***************************************************************************)
\* <<child, parent>> pairs of the member-of predicate
MemberOfCandidates ==
    {<<uriC, uriD>>, <<uriD, uriC>>, <<uriW, uriC>>, <<uriW, uriD>>}

\* <<parent, child>> pairs of the has-member predicate
HasMemberCandidates ==
    {<<uriW, uriWX>>, <<uriWX, uriY>>, <<uriY, uriW>>, <<uriC, uriW>>}

RECURSIVE HasMemberRows(_)
HasMemberRows(S) ==
    IF S = {} THEN <<>>
    ELSE LET e == CHOOSE x \in S : \A y \in S : y = x \/ StrLess(x[2], y[2])
                                                 \/ (x[2] = y[2] /\ StrLess(x[1], y[1]))
         IN <<[parent |-> e[1], resource |-> e[2]]>> \o HasMemberRows(S \ {e})

\* owners of the filesets, in the order of the fileset query (by owner)
OwnerLists ==
    {o \in UNION {[1..n -> WorkUris] : n \in 0..MaxFilesets} :
        \A i \in 1..(Len(o) - 1) : o[i] = o[i + 1] \/ StrLess(o[i], o[i + 1])}

\* stores with many shapes of streams and nesting and no access metadata
StreamGraphs ==
    {[collections |-> cs, works |-> ws, memberOf |-> mo,
      hasMember |-> HasMemberRows(hm), filesets |-> FilesetRows(ow),
      permissions |-> <<>>, embargos |-> <<>>,
      mapping |-> mapping] :
        cs \in SUBSET CollectionUris, ws \in SUBSET WorkUris,
        mo \in SUBSET MemberOfCandidates, hm \in SUBSET HasMemberCandidates,
        ow \in OwnerLists}

StreamGraphOk(g) ==
    /\ Cardinality(g.collections) + Cardinality(g.works) <= MaxResources
    /\ Cardinality(g.memberOf) + Len(g.hasMember) <= MaxEdges
    /\ \A e \in g.memberOf : e[1] \in g.collections \cup g.works
    /\ \A i \in 1..Len(g.hasMember) : g.hasMember[i].resource \in g.works

\* group lists and embargo records of one work and its fileset
GroupLists ==
    {<<>>, <<groupPublic>>, <<groupRegistered>>, <<groupAdmin>>,
     <<groupRegistered, groupPublic>>, <<groupPublic, groupRegistered>>,
     <<groupAdmin, groupRegistered>>}

PermissionRows(groups, resource) ==
    [i \in 1..Len(groups) |-> [agent |-> groups[i], resource |-> resource]]

\* the wall clock value when the run starts
StartTime == 0

\* the release dates start with one that lapsed before the run started
EmbargoRowSets(resource, afters) ==
    {<<>>} \cup
    {<<[resource |-> resource, visibilityDuringEmbargo |-> "restricted",
        visibilityAfterEmbargo |-> va, releaseDate |-> d]>> :
        va \in afters, d \in (StartTime - 1)..MaxTime}

\* stores with one work, its fileset, and many shapes of access metadata
AccessGraphs ==
    {[collections |-> {}, works |-> {uriW}, memberOf |-> {},
      hasMember |-> HasMemberRows(hm), filesets |-> FilesetRows(<<uriW>>),
      permissions |-> PermissionRows(gf, <<"/", "f1">>) \o PermissionRows(gw, uriW),
      embargos |-> ef \o ew, mapping |-> mapping] :
        hm \in {{}, {<<uriY, uriW>>}},
        gf \in {<<>>, <<groupPublic>>, <<groupAdmin>>}, gw \in GroupLists,
        ef \in EmbargoRowSets(<<"/", "f1">>, {"open"}),
        ew \in EmbargoRowSets(uriW, {"open", "authenticated"})}

\* stores with one work that owns more attachments than one sub-group of the
\* copier holds
BulkGraphs ==
    {[collections |-> {}, works |-> {uriW}, memberOf |-> {}, hasMember |-> <<>>,
      filesets |-> FilesetRows([i \in 1..(SubGroupSize + 1) |-> uriW]),
      permissions |-> <<>>, embargos |-> <<>>,
      mapping |-> mapping]}

\* stores with one work, top-level or child of a work that is not in the
\* store, read with a mapping none of whose predicates the work has
UnmappedGraphs ==
    {[collections |-> {}, works |-> {uriW}, memberOf |-> {},
      hasMember |-> HasMemberRows(hm), filesets |-> FilesetRows(<<uriW>>),
      permissions |-> <<>>, embargos |-> <<>>, mapping |-> mapping_without_model] :
        hm \in {{}, {<<uriY, uriW>>}}}

\* stores with a work whose URI ends with the separator
SlashGraphs ==
    {[collections |-> {}, works |-> ws, memberOf |-> {},
      hasMember |-> HasMemberRows(hm), filesets |-> FilesetRows(ow),
      permissions |-> <<>>, embargos |-> <<>>,
      mapping |-> mapping] :
        ws \in {{uriZ}, {uriW, uriZ}}, hm \in {{}, {<<uriY, uriZ>>}},
        ow \in {<<>>, <<uriZ>>}}

(***************************************************************************)
(* State                                                                   *)
(***************************************************************************)
VARIABLES
    graph,                \* self.store, read-only
    batch_size,           \* self.batch_size
    permissions,          \* self.permissions.permissions_per_resource
    embargos,             \* self.embargos.embargo_per_resource
    parents,              \* self.parents.parent_child_mapping
    now,                  \* the last value read from the wall clock
    resource_iter,        \* what is left of the resource stream
    fileset_iter,         \* what is left of the fileset stream
    batch, done, collection_ids, child_works, child_work_filesets,
    import_counter, rows, files_to_copy,   \* locals of prepare_import_batches
    pc,                   \* position of the generator and of its consumer
    yielded,              \* the batches yielded so far
    archives,             \* the archives prepare_imports has written
    error_log,            \* what logger.error has been called with
    pool,                 \* the worker pool of copy_files_concurrently
    call                  \* the last direct call of an operation, with its result

vars == <<graph, batch_size, permissions, embargos, parents, now, resource_iter,
          fileset_iter, batch, done, collection_ids, child_works,
          child_work_filesets, import_counter, rows, files_to_copy, pc, yielded,
          archives, error_log, pool, call>>

inputs == <<graph, batch_size, permissions, embargos, parents>>

\* mutant: the counter goes up by two
next_batch_by_two(n) == IF n + 1 < MaxBatches THEN n + 2 ELSE n

\* batch += 1, line 531; the counter is kept up to MaxBatches, which a run
\* that ends does not reach
next_batch(n) == IF n < MaxBatches THEN n + 1 ELSE n

\* a history with one more item; the first MaxBatches items are kept
Recorded(history, item) ==
    IF Len(history) < MaxBatches THEN Append(history, item) ELSE history

\* no ThreadPoolExecutor has been made yet
IdlePool == [dest |-> 0, dir_exists |-> FALSE, tasks |-> <<>>, data |-> <<>>]

\* mutant: the works are chained before the collections
resource_stream_works_first(g) ==
    get_resources(g, "Work") \o get_resources(g, "Collection")

\* chain(self.get_resources(Collection), self.get_resources(Work)), line 468
resource_stream(g) == get_resources(g, "Collection") \o get_resources(g, "Work")

\* FedoraGraph.__init__ followed by the first lines of prepare_import_batches
InitFrom(g, size) ==
    /\ graph = g
    /\ batch_size = size
    /\ permissions = get_permissions(g)
    /\ embargos = get_embargos(g)
    /\ parents = get_parents(g)
    /\ now = StartTime
    /\ resource_iter = resource_stream(g)
    /\ fileset_iter = get_filesets(g)
    /\ batch = 0
    /\ done = FALSE
    /\ collection_ids = <<>>
    /\ child_works = <<>>
    /\ child_work_filesets = <<>>
    /\ import_counter = [m \in {} |-> 0]
    /\ rows = <<>>
    /\ files_to_copy = <<>>
    /\ pc = "assemble"
    /\ yielded = <<>>
    /\ archives = <<>>
    /\ error_log = {}
    /\ pool = IdlePool
    /\ call = [op |-> "none"]

Init ==
    \E g \in {x \in StreamGraphs : StreamGraphOk(x)} \cup AccessGraphs
               \cup BulkGraphs \cup SlashGraphs \cup UnmappedGraphs,
       size \in 1..MaxBatchSize : InitFrom(g, size)

(***************************************************************************)
(* Concurrent file copier                                                  *)
(***************************************************************************)
\* one call of logger.error
LogEntry(msg, batch_num, file) == [msg |-> msg, batch |-> batch_num, file |-> file]

\* mutant: the paths copied before a failing copy are returned
copy_files_partial(dest, files, failing, mkdir_fails) ==
    LET bad == {i \in 1..Len(files) : files[i].id \in failing}
        n == IF bad = {} THEN Len(files)
             ELSE (CHOOSE i \in bad : \A j \in bad : i <= j) - 1
    IN [raised |-> FALSE,
        output |-> [i \in 1..n |-> [dir |-> dest, name |-> files[i].file]],
        logged |-> {}]

\* FedoraGraph.copy_files on one sub-group: it raises when the destination
\* directory cannot be made (another sub-group made it between the test and
\* the mkdir of lines 424-425) or at the first copy that fails, which it
\* logs; else it returns the paths copied
copy_files(dest, files, failing, mkdir_fails) ==
    LET bad == {i \in 1..Len(files) : files[i].id \in failing}
    IN IF mkdir_fails
       THEN [raised |-> TRUE, output |-> <<>>, logged |-> {}]
       ELSE IF bad # {}
       THEN LET first == CHOOSE i \in bad : \A j \in bad : i <= j
            IN [raised |-> TRUE, output |-> <<>>,
                logged |-> {LogEntry("Unable to copy file", dest, files[first].id)}]
       ELSE [raised |-> FALSE,
             output |-> [i \in 1..Len(files) |-> [dir |-> dest, name |-> files[i].file]],
             logged |-> {}]

\* file_sets[i : i + 10]
sub_group(file_sets, i) ==
    SubSeq(file_sets, i + 1,
           IF i + SubGroupSize <= Len(file_sets) THEN i + SubGroupSize
           ELSE Len(file_sets))

\* the as_completed loop: results in completion order, failed ones skipped
RECURSIVE collect(_, _, _, _, _)
collect(dest, file_sets, failing, racing, order) ==
    IF order = <<>> THEN <<>>
    ELSE LET i == Head(order)
             res == copy_files(dest, sub_group(file_sets, i), failing, i \in racing)
         IN (IF res.raised THEN <<>> ELSE res.output)
            \o collect(dest, file_sets, failing, racing, Tail(order))

\* range(0, len(file_sets), 10)
SubGroupStarts(n) == {i \in 0..(n - 1) : i % SubGroupSize = 0}

\* what the sub-groups and the as_completed loop log, lines 434 and 456
copy_errors(dest, file_sets, failing, racing) ==
    UNION {LET res == copy_files(dest, sub_group(file_sets, i), failing, i \in racing)
           IN res.logged \cup
              (IF res.raised
               THEN {LogEntry("Error copying files in batch", dest, <<>>)}
               ELSE {}) : i \in SubGroupStarts(Len(file_sets))}

Orders(S) ==
    {o \in [1..Cardinality(S) -> S] : \A i, j \in 1..Cardinality(S) : i # j => o[i] # o[j]}

\* the copies that fail: at most MaxCopyFailures of the files
RECURSIVE SubsetsUpTo(_, _)
SubsetsUpTo(S, k) ==
    IF k = 0 THEN {{}}
    ELSE LET smaller == SubsetsUpTo(S, k - 1)
         IN smaller \cup {f \cup {x} : f \in smaller, x \in S}

FailingSets(file_sets) ==
    SubsetsUpTo({file_sets[i].id : i \in 1..Len(file_sets)}, MaxCopyFailures)

\* the sub-groups whose mkdir of the destination directory fails: the
\* directory is tested and made without a lock by every worker thread, so
\* every sub-group but the one that makes it may find it made in between
RacingSets(file_sets) ==
    {m \in SUBSET SubGroupStarts(Len(file_sets)) :
        m = {} \/ m # SubGroupStarts(Len(file_sets))}

\* FedoraGraph.copy_files_concurrently: every value it can return, with what
\* it logs
copy_files_concurrently(dest, file_sets) ==
    {[data |-> collect(dest, file_sets, failing, racing, order),
      errors |-> copy_errors(dest, file_sets, failing, racing)] :
        failing \in FailingSets(file_sets), racing \in RacingSets(file_sets),
        order \in Orders(SubGroupStarts(Len(file_sets)))}

(***************************************************************************)
(* Batch assembler: FedoraGraph.prepare_import_batches                     *)
(***************************************************************************)
\* Counter[key] += 1
Increment(counter, key) ==
    SetAttr(counter, key, (IF key \in DOMAIN counter THEN counter[key] ELSE 0) + 1)

\* the successive wall clock values read while the objects with these ids are
\* looked up in the embargo index: the clock is read only for an id that has
\* a record, and never runs backwards
RECURSIVE ClockReadings(_, _, _)
ClockReadings(index, from, ids) ==
    IF ids = <<>> THEN {<<>>}
    ELSE LET ts == IF Head(ids) \in DOMAIN index THEN from..MaxTime ELSE {from}
         IN UNION {{<<t>> \o r : r \in ClockReadings(index, t, Tail(ids))} : t \in ts}

\* mutant: at most one attachment is taken
before_and_after_one(id, stream) ==
    IF stream # <<>> /\ Head(stream).parents = id THEN 1 ELSE 0

\* before_and_after(lambda x: resource.id == x.parents, fileset_iter): the
\* length of the longest prefix owned by the resource
RECURSIVE before_and_after(_, _)
before_and_after(id, stream) ==
    IF stream # <<>> /\ Head(stream).parents = id
    THEN 1 + before_and_after(id, Tail(stream))
    ELSE 0

\* mutant: only a collection is ever deferred
must_defer_collections_only(resource, ids) ==
    /\ HasAttr(resource, "model")
    /\ resource.model = "Collection"
    /\ HasAttr(resource, "parents")
    /\ resource.parents # <<>>
    /\ \E i \in 1..Len(resource.parents) : resource.parents[i] \notin Range(ids)

\* mutant: deferred only when none of the parents is an emitted collection
must_defer_all_unresolved(resource, ids) ==
    /\ HasAttr(resource, "parents")
    /\ resource.parents # <<>>
    /\ \A i \in 1..Len(resource.parents) : resource.parents[i] \notin Range(ids)

\* the deferral test of lines 491-495
must_defer(resource, ids) ==
    /\ HasAttr(resource, "parents")
    /\ resource.parents # <<>>
    /\ \E i \in 1..Len(resource.parents) : resource.parents[i] \notin Range(ids)

\* is the fileset kept with the last deferred work (line 519)
fileset_deferred(works, file) ==
    works # <<>> /\ Contains(works[Len(works)].id, file.parents)

\* the loop over the filesets of the current resource, lines 515-524
RECURSIVE take_files(_, _, _, _)
take_files(st, files, clocks, works) ==
    IF files = <<>> THEN st
    ELSE LET f1 == embargo_update_resource(embargos, Head(files), Head(clocks))
             file == permissions_update_resource(permissions, f1)
             next ==
                 IF fileset_deferred(works, file)
                 THEN [st EXCEPT !.child_work_filesets = Append(@, file)]
                 ELSE [st EXCEPT !.rows = Append(@, format_row(file)),
                                 !.files_to_copy = Append(@, file)]
         IN take_files([next EXCEPT !.import_counter = Increment(@, "FileSet")],
                       Tail(files), Tail(clocks), works)

\* mutant: the inner loop runs while the batch has at most batch_size rows
inner_loop_test_inclusive(current_rows, size) == Len(current_rows) <= size

\* mutant: the attachment rows are not counted
inner_loop_test_resources_only(current_rows, size) ==
    Len(SelectSeq(current_rows, LAMBDA row : row.model # "FileSet")) < size

\* the test of the inner loop, line 480
inner_loop_test(current_rows, size) == Len(current_rows) < size

\* mutant: the last deferred work is left out of the last batch
final_rows_drop_last(works, filesets) ==
    [i \in 1..(Len(works) - 1 + Len(filesets)) |->
        format_row((SubSeq(works, 1, Len(works) - 1) \o filesets)[i])]

\* mutant: the deferred attachments are put before the deferred works
final_rows_filesets_first(works, filesets) ==
    [i \in 1..(Len(works) + Len(filesets)) |-> format_row((filesets \o works)[i])]

\* mutant: the deferred works are listed twice
final_rows_works_twice(works, filesets) ==
    [i \in 1..(2 * Len(works) + Len(filesets)) |->
        format_row((works \o works \o filesets)[i])]

\* the rows of the last batch, lines 540-543
final_rows(works, filesets) ==
    [i \in 1..(Len(works) + Len(filesets)) |-> format_row((works \o filesets)[i])]

\* mutant: the id of every resource that is not deferred is listed
emitted_collections_any_model(ids, resource, deferred) ==
    IF ~deferred THEN Append(ids, resource.id) ELSE ids

\* collection_ids after a resource has been pulled, lines 496-500: the id of
\* a collection that is not deferred is appended
emitted_collections(ids, resource, deferred) ==
    IF ~deferred /\ resource.model = "Collection" THEN Append(ids, resource.id)
    ELSE ids

\* one pass of the inner loop that pulls a resource, lines 481-524
PullResource ==
    /\ pc = "assemble"
    /\ inner_loop_test(rows, batch_size)
    /\ resource_iter # <<>>
    /\ LET pulled == Head(resource_iter)
           n == before_and_after(pulled.id, fileset_iter)
           files == SubSeq(fileset_iter, 1, n)
       IN \E clocks \in ClockReadings(embargos, now,
                          <<pulled.id>> \o [i \in 1..n |-> files[i].id]) :
          LET r1 == embargo_update_resource(embargos, pulled, clocks[1])
              r2 == permissions_update_resource(permissions, r1)
              resource == parents_update_resource(parents, r2)
              defer == must_defer(resource, collection_ids)
              works == IF defer THEN Append(child_works, resource) ELSE child_works
              rows1 == IF defer THEN rows ELSE Append(rows, format_row(resource))
              failed == ~defer /\ \E i \in 1..Len(rows1) :
                                     rows1[i].bulkrax_identifier = <<>>
              st == take_files(
                        [rows |-> rows1, files_to_copy |-> files_to_copy,
                         child_work_filesets |-> child_work_filesets,
                         import_counter |-> Increment(import_counter, resource.model)],
                        files, Tail(clocks), works)
          IN /\ resource_iter' = Tail(resource_iter)
             /\ child_works' = works
             /\ IF ~HasAttr(resource, "model")
                THEN \* resource.model raises at line 499 or at line 508
                     /\ pc' = "AttributeError"
                     /\ now' = clocks[1]
                     /\ UNCHANGED <<collection_ids, rows, fileset_iter, files_to_copy,
                                    child_work_filesets, import_counter>>
                ELSE
                  /\ collection_ids' = emitted_collections(collection_ids, resource, defer)
                  /\ IF failed
                     THEN /\ pc' = "AssertionError"
                          /\ rows' = rows1
                          /\ now' = clocks[1]
                          /\ UNCHANGED <<fileset_iter, files_to_copy,
                                         child_work_filesets, import_counter>>
                     ELSE /\ pc' = pc
                          /\ now' = clocks[Len(clocks)]
                          /\ fileset_iter' =
                                 SubSeq(fileset_iter, n + 1, Len(fileset_iter))
                          /\ rows' = st.rows
                          /\ files_to_copy' = st.files_to_copy
                          /\ child_work_filesets' = st.child_work_filesets
                          /\ import_counter' = st.import_counter
    /\ parents' = defaultdict_get(parents, Head(resource_iter).id)
    /\ UNCHANGED <<graph, batch_size, permissions, embargos, call, pool, batch, done,
                   yielded, archives, error_log>>

\* the inner loop ends, the batch is copied and yielded, lines 480-485, 525-528
YieldBatch ==
    /\ pc = "assemble"
    /\ ~inner_loop_test(rows, batch_size) \/ resource_iter = <<>>
    /\ done' = IF inner_loop_test(rows, batch_size) THEN TRUE ELSE done
    /\ \E copied \in copy_files_concurrently(batch, files_to_copy) :
           /\ yielded' = Recorded(yielded, [batch |-> batch, rows |-> rows,
                                          new_paths |-> copied.data,
                                          site |-> "regular"])
           /\ error_log' = error_log \cup copied.errors
    /\ pc' = "yield"
    /\ UNCHANGED <<inputs, call, pool, now, resource_iter, fileset_iter, batch, collection_ids,
                   child_works, child_work_filesets, import_counter, rows,
                   files_to_copy, archives>>

\* the value DictWriter writes for a field a row does not have (restval)
restval(key) == IF key \in {"model", "visibility", "visibility_during_embargo",
                            "visibility_after_embargo", "release_date"}
                THEN "" ELSE <<>>

\* mutant: only the rows whose file was copied are written
write_archive_copied_rows(batch_id, batch_rows, files_copied) ==
    LET fieldnames == UNION {DOMAIN batch_rows[i] : i \in 1..Len(batch_rows)}
        kept == SelectSeq(batch_rows,
                    LAMBDA row : row.model = "FileSet" =>
                        \E k \in 1..Len(files_copied) : files_copied[k].name = row.file)
    IN [batch_id |-> batch_id,
        csv |-> [header |-> fieldnames,
                 lines |-> [i \in 1..Len(kept) |->
                     [k \in fieldnames |->
                         IF k \in DOMAIN kept[i] THEN kept[i][k] ELSE restval(k)]]],
        files |-> [k \in 1..Len(files_copied) |-> <<"files", "/">> \o files_copied[k].name]]

\* the archive of one batch, lines 550-565: the csv with one line per row
\* under the union of the rows' keys, and one member per copied file
write_archive(batch_id, batch_rows, files_copied) ==
    LET fieldnames == UNION {DOMAIN batch_rows[i] : i \in 1..Len(batch_rows)}
    IN [batch_id |-> batch_id,
        csv |-> [header |-> fieldnames,
                 lines |-> [i \in 1..Len(batch_rows) |->
                     [k \in fieldnames |->
                         IF k \in DOMAIN batch_rows[i] THEN batch_rows[i][k]
                         ELSE restval(k)]]],
        files |-> [k \in 1..Len(files_copied) |-> <<"files", "/">> \o files_copied[k].name]]

\* mutant: the error is logged and the loop goes on with the next batch
on_archive_error_swallowed(position) ==
    IF position = "yield" THEN "resume" ELSE "resume_final"

\* the raise of line 571: the error leaves prepare_imports
on_archive_error(position) == "ZipError"

\* the body of the loop of FedoraGraph.prepare_imports for the batch just
\* yielded, lines 549-571; writing the archive may fail
prepare_imports ==
    /\ pc \in {"yield", "yield_final"}
    /\ LET b == yielded[Len(yielded)]
       IN \/ /\ archives' = Recorded(archives, write_archive(b.batch, b.rows, b.new_paths))
             /\ pc' = IF pc = "yield" THEN "resume" ELSE "resume_final"
             /\ UNCHANGED error_log
          \/ /\ error_log' = error_log \cup
                                 {LogEntry("Error creating zipfile", b.batch, <<>>)}
             /\ pc' = on_archive_error(pc)
             /\ UNCHANGED archives
    /\ UNCHANGED <<inputs, call, pool, now, resource_iter, fileset_iter, batch, done,
                   collection_ids, child_works, child_work_filesets, import_counter,
                   rows, files_to_copy, yielded>>

\* mutant: the generator runs on as soon as it has yielded
may_resume_eager(position) == position \in {"yield", "resume"}

\* the generator is suspended at the yield of line 528 until the for loop of
\* prepare_imports (line 549) asks for the next batch, which it does when its
\* body has run for the batch just yielded
may_resume(position) == position = "resume"

\* the generator is resumed after a regular batch, lines 529-531 and 476-479
Resume ==
    /\ may_resume(pc)
    /\ batch' = next_batch(batch)
    /\ IF done
       THEN /\ pc' = "after_loop"
            /\ UNCHANGED <<rows, files_to_copy>>
       ELSE /\ pc' = "assemble"
            /\ rows' = <<>>
            /\ files_to_copy' = <<>>
    /\ UNCHANGED <<inputs, call, pool, now, resource_iter, fileset_iter, done, collection_ids,
                   child_works, child_work_filesets, import_counter, yielded,
                   archives, error_log>>

\* the deferred works are copied and yielded as a last batch, lines 533-545
YieldFinal ==
    /\ pc = "after_loop"
    /\ child_works # <<>>
    /\ \E copied \in copy_files_concurrently(batch, child_work_filesets) :
           /\ yielded' = Recorded(yielded,
                  [batch |-> batch,
                   rows |-> final_rows(child_works, child_work_filesets),
                   new_paths |-> copied.data, site |-> "final"])
           /\ error_log' = error_log \cup copied.errors
    /\ pc' = "yield_final"
    /\ UNCHANGED <<inputs, call, pool, now, resource_iter, fileset_iter, batch, done,
                   collection_ids, child_works, child_work_filesets, import_counter,
                   rows, files_to_copy, archives>>

\* the generator returns
Finish ==
    /\ \/ pc = "after_loop" /\ child_works = <<>>
       \/ pc = "resume_final"
    /\ pc' = "finished"
    /\ UNCHANGED <<inputs, call, pool, now, resource_iter, fileset_iter, batch, done,
                   collection_ids, child_works, child_work_filesets, import_counter,
                   rows, files_to_copy, yielded, archives, error_log>>

Next == PullResource \/ YieldBatch \/ prepare_imports \/ Resume \/ YieldFinal \/ Finish

Spec == Init /\ [][Next]_vars

\* the runs for every batch size the constructor takes, which is any integer
\* (lines 214, 240): the sizes below one are like size 0, the inner loop
\* test len(rows) < batch_size being false from the start
InitAnySize == \E g \in SlashGraphs, size \in 0..MaxBatchSize : InitFrom(g, size)

\* every step of the generator and of its consumer that can be taken is taken
SpecAnySize == InitAnySize /\ [][Next]_vars /\ WF_vars(Next)

(***************************************************************************)
(* Direct calls of the operations, on arguments drawn from bounded sets    *)
(***************************************************************************)
\* the state of a run
run == <<now, resource_iter, fileset_iter, batch, done, collection_ids, child_works,
         child_work_filesets, import_counter, rows, files_to_copy, pc, yielded,
         archives, error_log, pool>>

NoGraph ==
    [collections |-> {}, works |-> {}, memberOf |-> {}, hasMember |-> <<>>,
     filesets |-> <<>>, permissions |-> <<>>, embargos |-> <<>>,
      mapping |-> mapping]

\* the work /w as make_resource builds it, member of none, one or two
\* collections, before and after an earlier index set its visibility
CallResources ==
    LET made == {get_resources([NoGraph EXCEPT !.works = {uriW}, !.memberOf = mo],
                               "Work")[1] :
                    mo \in SUBSET {<<uriW, uriC>>, <<uriW, uriD>>}}
    IN made \cup {SetAttr(r, "visibility", "authenticated") : r \in made}

\* the group lists of a permission entry, every order of every choice
GroupSeqs ==
    UNION {[1..n -> {groupPublic, groupRegistered, groupAdmin}] : n \in 0..MaxGroups}

\* PermissionsMapping().make_mapping(rows).update_resource(resource)
CallPermissions ==
    /\ call.op = "none"
    /\ \E resource \in CallResources, groups \in GroupSeqs :
          LET index == permissions_make_mapping(EmptyMap,
                           PermissionRows(groups, resource.id), <<>>)
          IN call' = [op |-> "permissions.update_resource", index |-> index,
                      resource |-> resource,
                      result |-> permissions_update_resource(index, resource)]
    /\ UNCHANGED <<inputs, run>>

\* ParentChildMapping().make_mapping(rows).update_resource(resource)
CallParents ==
    /\ call.op = "none"
    /\ \E resource \in CallResources,
          hm \in SUBSET {<<uriY, uriW>>, <<uriWX, uriW>>, <<uriC, uriW>>, <<uriW, uriY>>} :
          LET index == parents_make_mapping(EmptyMap, HasMemberRows(hm))
          IN call' = [op |-> "parents.update_resource", index |-> index,
                      resource |-> resource,
                      result |-> parents_update_resource(index, resource)]
    /\ UNCHANGED <<inputs, run>>

\* EmbargoMapping().make_mapping(rows).update_resource(resource) when the wall
\* clock reads clock
CallEmbargo ==
    /\ call.op = "none"
    /\ \E resource \in CallResources,
          results \in EmbargoRowSets(uriW, {"open", "authenticated"})
                      \cup EmbargoRowSets(uriY, {"open"}),
          clock \in StartTime..MaxTime :
          LET index == embargo_make_mapping(EmptyMap, results)
          IN call' = [op |-> "embargos.update_resource", index |-> index,
                      resource |-> resource, clock |-> clock,
                      result |-> embargo_update_resource(index, resource, clock)]
    /\ UNCHANGED <<inputs, run>>

\* the file sets handed to the copier: n attachments of one work
CallFiles(n) == [i \in 1..n |-> make_fileset(FilesetRows([j \in 1..n |-> uriW])[i])]

\* FedoraGraph.copy_files_concurrently(dest, file_sets, batch_num) with the
\* copies that fail, the sub-groups that lose the race for the destination
\* directory and the order in which the sub-groups complete
CallCopier ==
    /\ call.op = "none"
    /\ \E n \in 0..MaxCopyFiles :
          \E failing \in FailingSets(CallFiles(n)), racing \in RacingSets(CallFiles(n)),
             order \in Orders(SubGroupStarts(n)) :
             call' = [op |-> "copy_files_concurrently", file_sets |-> CallFiles(n),
                      failing |-> failing, racing |-> racing, order |-> order,
                      raised |-> FALSE,
                      result |-> collect(0, CallFiles(n), failing, racing, order)]
    /\ UNCHANGED <<inputs, run>>

\* a mapping with a single-valued and a multi-valued field next to the two
\* entries of every run
CallMapping ==
    mapping @@ ("title" :> <<"title", FALSE>>) @@ ("creator" :> <<"creator", TRUE>>)

\* the triples of one subject as the query of get_resources gives them, with
\* mapped and unmapped predicates
CallTriples ==
    UNION {{[i \in 1..n |-> [p |-> ps[i], o |-> os[i], adminSet |-> "Default"]] :
               ps \in [1..n -> {"title", "creator", "created"}],
               os \in [1..n -> {<<"a">>, <<"b">>}]} : n \in 1..MaxTriples}

\* Resource.make_resource(id, triples, mapping)
CallMakeResource ==
    /\ call.op = "none"
    /\ \E id \in {uriW, uriY}, triples \in CallTriples :
          call' = [op |-> "make_resource", id |-> id, triples |-> triples,
                   mapping |-> CallMapping,
                   result |-> make_resource(id, triples, CallMapping)]
    /\ UNCHANGED <<inputs, run>>

InitCalls == InitFrom(NoGraph, 1)

NextCalls ==
    CallPermissions \/ CallEmbargo \/ CallParents \/ CallCopier \/ CallMakeResource

SpecCalls == InitCalls /\ [][NextCalls]_vars

(***************************************************************************)
(* The run with the worker pool of the copier step by step                 *)
(***************************************************************************)
\* mutant: the copier is called with the list of the regular batch both times
enqueued_current_batch == files_to_copy

\* the list the copier is called with at lines 525 and 535
enqueued == IF pc \in {"assemble", "copying"} THEN files_to_copy
            ELSE child_work_filesets

\* what stays the same in every step of a worker thread
assembler == <<now, resource_iter, fileset_iter, batch, done, collection_ids,
               child_works, import_counter, rows, yielded, archives>>

\* the inner loop has ended or the deferred works are due: the executor is
\* made and one task per sub-group is submitted with its own slice of the
\* list, lines 442-450; the destination directory may be left from an
\* earlier run
SubmitCopies ==
    /\ \/ /\ pc = "assemble"
          /\ ~inner_loop_test(rows, batch_size) \/ resource_iter = <<>>
          /\ done' = IF inner_loop_test(rows, batch_size) THEN TRUE ELSE done
          /\ pc' = "copying"
       \/ /\ pc = "after_loop"
          /\ child_works # <<>>
          /\ pc' = "copying_final"
          /\ UNCHANGED done
    /\ \E present \in BOOLEAN :
          pool' = [dest |-> batch, dir_exists |-> present, data |-> <<>>,
                   tasks |-> [i \in SubGroupStarts(Len(enqueued)) |->
                                 [state |-> "submitted", collected |-> FALSE,
                                  files |-> sub_group(enqueued, i), output |-> <<>>]]]
    /\ UNCHANGED <<inputs, call, now, resource_iter, fileset_iter, batch,
                   collection_ids, child_works, child_work_filesets, import_counter,
                   rows, files_to_copy, yielded, archives, error_log>>

\* a worker thread tests whether the destination directory exists, line 424
TaskExists ==
    /\ pc \in {"copying", "copying_final"}
    /\ \E i \in DOMAIN pool.tasks :
          /\ pool.tasks[i].state = "submitted"
          /\ pool' = [pool EXCEPT !.tasks[i].state =
                          IF pool.dir_exists THEN "copying" ELSE "saw_missing"]
    /\ UNCHANGED <<inputs, call, assembler, pc, child_work_filesets, files_to_copy,
                   error_log>>

\* a worker thread that found no directory makes it, line 425: mkdir raises
\* FileExistsError when another thread has made it meanwhile
TaskMkdir ==
    /\ pc \in {"copying", "copying_final"}
    /\ \E i \in DOMAIN pool.tasks :
          /\ pool.tasks[i].state = "saw_missing"
          /\ pool' = IF pool.dir_exists
                     THEN [pool EXCEPT !.tasks[i].state = "failed"]
                     ELSE [pool EXCEPT !.tasks[i].state = "copying",
                                       !.dir_exists = TRUE]
    /\ UNCHANGED <<inputs, call, assembler, pc, child_work_filesets, files_to_copy,
                   error_log>>

\* mutant: a worker thread takes the files it has copied off the list
enqueued_after_copy_consumed(file_sets, i) ==
    SubSeq(file_sets, 1, i) \o SubSeq(file_sets, i + SubGroupSize + 1, Len(file_sets))

\* the list of the assembler after a worker thread has run the loop of lines
\* 426-436 over its slice: the loop reads the slice and nothing else
enqueued_after_copy(file_sets, i) == file_sets

\* a worker thread copies the files of its slice, lines 426-437: all of them,
\* or up to one whose copy fails, which it logs before it raises
TaskCopy ==
    /\ pc \in {"copying", "copying_final"}
    /\ \E i \in DOMAIN pool.tasks :
          /\ pool.tasks[i].state = "copying"
          /\ \E failing \in {{}} \cup {{pool.tasks[i].files[k].id} :
                                          k \in 1..Len(pool.tasks[i].files)} :
                LET res == copy_files(pool.dest, pool.tasks[i].files, failing, FALSE)
                IN /\ pool' = [pool EXCEPT
                                  !.tasks[i].state = IF res.raised THEN "failed" ELSE "done",
                                  !.tasks[i].output = res.output]
                   /\ error_log' = error_log \cup res.logged
          /\ files_to_copy' = IF pc = "copying"
                              THEN enqueued_after_copy(files_to_copy, i)
                              ELSE files_to_copy
          /\ child_work_filesets' = IF pc = "copying_final"
                                    THEN enqueued_after_copy(child_work_filesets, i)
                                    ELSE child_work_filesets
    /\ UNCHANGED <<inputs, call, assembler, pc>>

\* the as_completed loop takes a finished task, lines 451-457
Collect ==
    /\ pc \in {"copying", "copying_final"}
    /\ \E i \in DOMAIN pool.tasks :
          /\ pool.tasks[i].state \in {"done", "failed"}
          /\ ~pool.tasks[i].collected
          /\ IF pool.tasks[i].state = "done"
             THEN /\ pool' = [pool EXCEPT !.tasks[i].collected = TRUE,
                                          !.data = @ \o pool.tasks[i].output]
                  /\ UNCHANGED error_log
             ELSE /\ pool' = [pool EXCEPT !.tasks[i].collected = TRUE]
                  /\ error_log' = error_log \cup
                         {LogEntry("Error copying files in batch", pool.dest, <<>>)}
    /\ UNCHANGED <<inputs, call, assembler, pc, child_work_filesets, files_to_copy>>

\* mutant: the copier returns with the first result
may_return_first_result(tasks) ==
    DOMAIN tasks = {} \/ \E i \in DOMAIN tasks : tasks[i].collected

\* the as_completed loop ends when it has taken every future, and the with
\* block of line 442 is left when every worker thread is done
may_return(tasks) == \A i \in DOMAIN tasks : tasks[i].collected

\* copy_files_concurrently returns and the batch is yielded, lines 458, 528
\* and 538-545
YieldCopied ==
    /\ pc \in {"copying", "copying_final"}
    /\ may_return(pool.tasks)
    /\ yielded' = Recorded(yielded,
           [batch |-> batch,
            rows |-> IF pc = "copying" THEN rows
                     ELSE final_rows(child_works, child_work_filesets),
            new_paths |-> pool.data,
            site |-> IF pc = "copying" THEN "regular" ELSE "final"])
    /\ pc' = IF pc = "copying" THEN "yield" ELSE "yield_final"
    /\ UNCHANGED <<inputs, call, pool, now, resource_iter, fileset_iter, batch, done,
                   collection_ids, child_works, child_work_filesets, import_counter,
                   rows, files_to_copy, archives, error_log>>

\* the stores of the step-by-step runs: more than one sub-group, deferred
\* works, two works with an attachment each, and a top-level work next to a
\* deferred one, each with an attachment
PoolGraphs ==
    BulkGraphs \cup SlashGraphs \cup
    {[NoGraph EXCEPT !.works = {uriW, uriY}, !.filesets = FilesetRows(<<uriW, uriY>>)]}
    \cup {[NoGraph EXCEPT !.works = {uriW, uriY},
                          !.hasMember = HasMemberRows({<<uriD, uriW>>}),
                          !.filesets = FilesetRows(<<uriW, uriY>>)]}

InitPool == \E g \in PoolGraphs, size \in 1..MaxBatchSize : InitFrom(g, size)

NextPool ==
    PullResource \/ SubmitCopies \/ TaskExists \/ TaskMkdir \/ TaskCopy \/ Collect
    \/ YieldCopied \/ prepare_imports \/ Resume \/ Finish

SpecPool == InitPool /\ [][NextPool]_vars

(***************************************************************************)
(* Vocabulary of the properties                                            *)
(***************************************************************************)
Batches == 1..Len(yielded)

RowIndices(b) == 1..Len(yielded[b].rows)

RegularBatches == {b \in Batches : yielded[b].site = "regular"}

FinalBatches == {b \in Batches : yielded[b].site = "final"}

\* the parent identifiers an importer reads from a row
RowParentIds(row) ==
    IF "parents" \in DOMAIN row THEN Range(Split(row.parents, <<";">>[1])) ELSE {}

IsBareIdOf(id, uris) == \E u \in uris : uri_to_id(u) = id

\* the generator ran to its end
Completed == pc = "finished"

Visibilities == {"open", "restricted", "private", "embargo"}

EmbargoFields == {"visibility_during_embargo", "visibility_after_embargo", "release_date"}

(***************************************************************************)
(* Properties                                                              *)
(***************************************************************************)
\* C1: every emitted row of a resource or attachment whose embargo record has a
\* release date in the future has visibility "embargo", whatever permission
\* entry the resource has.
C1_ActiveEmbargoWins ==
    \A b \in Batches : \A i \in RowIndices(b) :
        LET row == yielded[b].rows[i]
        IN \A u \in DOMAIN embargos :
              (uri_to_id(u) = row.bulkrax_identifier /\ embargos[u].release_date >= now)
              => ("visibility" \in DOMAIN row /\ row.visibility = "embargo")

\* C2: every parent of an emitted work row that is a work of the resource
\* stream has its row in a batch with a strictly smaller index.
C2_WorkParentStrictlyEarlier ==
    \A b \in Batches : \A i \in RowIndices(b) :
        LET row == yielded[b].rows[i]
        IN row.model = "Work" =>
             \A p \in RowParentIds(row) :
                IsBareIdOf(p, graph.works) =>
                   \E b2 \in Batches :
                      /\ yielded[b2].batch < yielded[b].batch
                      /\ \E j \in RowIndices(b2) :
                            yielded[b2].rows[j].bulkrax_identifier = p

\* C3: every parent of an emitted work row that is a collection of the
\* resource stream has its row in a batch with a smaller index, or earlier in
\* the same batch.
C3_CollectionParentNotLater ==
    \A b \in Batches : \A i \in RowIndices(b) :
        LET row == yielded[b].rows[i]
        IN row.model = "Work" =>
             \A p \in RowParentIds(row) :
                IsBareIdOf(p, graph.collections) =>
                   \E b2 \in Batches : \E j \in RowIndices(b2) :
                      /\ yielded[b2].rows[j].bulkrax_identifier = p
                      /\ yielded[b2].rows[j].model = "Collection"
                      /\ \/ yielded[b2].batch < yielded[b].batch
                         \/ b2 = b /\ j < i

C3_Witness ==
    \E b \in Batches : \E i \in RowIndices(b) :
        /\ yielded[b].rows[i].model = "Work"
        /\ \E p \in RowParentIds(yielded[b].rows[i]) :
              /\ IsBareIdOf(p, graph.collections)
              /\ \E j \in RowIndices(b) :
                    j < i /\ yielded[b].rows[j].bulkrax_identifier = p

\* C4 as stated: every regular batch has at most batch_size rows.
C4_RegularBatchWithinSize ==
    \A b \in RegularBatches : Len(yielded[b].rows) <= batch_size

\* C4 amended: in every regular batch every resource row is among the first
\* batch_size rows, so only attachment rows of the last resource pulled into
\* the batch can take the row count over the batch size.
C4_ResourceRowsWithinSize ==
    \A b \in RegularBatches : \A i \in RowIndices(b) :
        yielded[b].rows[i].model # "FileSet" => i <= batch_size

C4_Witness ==
    \E b \in RegularBatches :
        /\ Len(yielded[b].rows) > batch_size
        /\ yielded[b].rows[batch_size].model # "FileSet"

\* C5: in every yielded batch the owner of every attachment row is the
\* identifier of a resource row of the same batch.
C5_AttachmentWithOwner ==
    \A b \in Batches : \A i \in RowIndices(b) :
        yielded[b].rows[i].model = "FileSet" =>
           \E j \in RowIndices(b) :
              /\ yielded[b].rows[j].model # "FileSet"
              /\ yielded[b].rows[j].bulkrax_identifier = yielded[b].rows[i].parents

\* C6: a deferred resource has no row in a regular batch, and once the run is
\* complete it has exactly one row, in the final batch, also when its parent
\* is never emitted.
C6_DeferredOnlyInFinalBatch ==
    \A k \in 1..Len(child_works) :
        LET id == uri_to_id(child_works[k].id)
            places == UNION {{<<b, i>> : i \in {j \in RowIndices(b) :
                                 yielded[b].rows[j].bulkrax_identifier = id}} :
                             b \in Batches}
        IN /\ \A pl \in places : yielded[pl[1]].site = "final"
           /\ Completed => Cardinality(places) = 1

C6_Witness ==
    /\ Completed
    /\ \E k \in 1..Len(child_works) :
          \E i \in 1..Len(child_works[k].parents) :
             ~IsBareIdOf(uri_to_id(child_works[k].parents[i]),
                         graph.works \cup graph.collections)

\* the identifiers of the rows of a batch, in row order
RowIds(b) == [i \in RowIndices(b) |-> yielded[b].rows[i].bulkrax_identifier]

\* the bare identifiers of the objects of a stream that are in a set of
\* deferred objects, in the order of the stream
RECURSIVE DeferredInStreamOrder(_, _)
DeferredInStreamOrder(stream, deferred) ==
    IF stream = <<>> THEN <<>>
    ELSE (IF \E k \in 1..Len(deferred) : deferred[k].id = Head(stream).id
          THEN <<uri_to_id(Head(stream).id)>> ELSE <<>>)
         \o DeferredInStreamOrder(Tail(stream), deferred)

\* C7: once the resource stream is exhausted and something was deferred, exactly
\* one more batch is yielded, after all regular batches; its rows are the
\* deferred resources in deferral order followed by the deferred attachments in
\* deferral order, and its paths are what the copier returns for the deferred
\* attachments.  When nothing was deferred no such batch is yielded.
C7_OneFinalBatch ==
    /\ \A b \in FinalBatches :
          /\ b = Len(yielded)
          /\ \A b2 \in Batches \ {b} :
                yielded[b2].site = "regular" /\ yielded[b2].batch < yielded[b].batch
          /\ resource_iter = <<>>
          /\ child_works # <<>>
          /\ RowIds(b) = DeferredInStreamOrder(resource_stream(graph), child_works)
                          \o DeferredInStreamOrder(get_filesets(graph), child_work_filesets)
          /\ Len(yielded[b].rows) = Len(child_works) + Len(child_work_filesets)
          /\ \E copied \in copy_files_concurrently(yielded[b].batch,
                                                     child_work_filesets) :
                copied.data = yielded[b].new_paths
    /\ Completed => (child_works # <<>> <=> FinalBatches # {})

C7_Witness ==
    /\ Completed
    /\ FinalBatches # {}
    /\ Len(child_works) >= 2
    /\ child_work_filesets # <<>>
    /\ Len(yielded) >= 2

\* C8: in the rows of the regular batches taken in index order, every
\* collection row precedes every work row and every attachment row.
C8_CollectionsLead ==
    \A b1 \in RegularBatches, b2 \in RegularBatches :
        \A i \in RowIndices(b1), j \in RowIndices(b2) :
            (/\ yielded[b1].batch < yielded[b2].batch \/ (b1 = b2 /\ i < j)
             /\ yielded[b2].rows[j].model = "Collection")
            => yielded[b1].rows[i].model = "Collection"

C8_Witness ==
    /\ 1 \in RegularBatches
    /\ Len(yielded[1].rows) >= 2
    /\ yielded[1].rows[1].model = "Collection"
    /\ yielded[1].rows[2].model = "Collection"
    /\ \E b \in RegularBatches : \E i \in RowIndices(b) : yielded[b].rows[i].model = "Work"

\* C9: no collection is appended to the deferred list and no collection row is
\* in the final batch.
C9_CollectionNeverDeferred ==
    /\ \A k \in 1..Len(child_works) :
          ~(HasAttr(child_works[k], "model") /\ child_works[k].model = "Collection")
    /\ \A b \in FinalBatches : \A i \in RowIndices(b) :
          yielded[b].rows[i].model # "Collection"

VisibilityWellFormed(obj) ==
    /\ "visibility" \in DOMAIN obj
    /\ obj.visibility \in Visibilities
    /\ obj.visibility = "embargo" => EmbargoFields \subseteq DOMAIN obj

\* C10: after the indices have been applied every resource and attachment has a
\* visibility among open, restricted, private and embargo, and one with
\* visibility embargo carries the three embargo fields.
C10_VisibilityWellFormed ==
    /\ \A b \in Batches : \A i \in RowIndices(b) : VisibilityWellFormed(yielded[b].rows[i])
    /\ \A i \in 1..Len(rows) : VisibilityWellFormed(rows[i])
    /\ \A k \in 1..Len(child_works) : VisibilityWellFormed(child_works[k])
    /\ \A k \in 1..Len(child_work_filesets) : VisibilityWellFormed(child_work_filesets[k])

\* C11: PermissionsMapping.update_resource on a resource whose permission entry
\* is a non-empty group list sets the visibility to open when the public group
\* is in the list, else to restricted when the registered group is in it, else
\* to private, whatever the order of the groups.
C11_LeastRestrictiveGroupWins ==
    (/\ call.op = "permissions.update_resource"
     /\ call.resource.id \in DOMAIN call.index
     /\ call.index[call.resource.id] # <<>>)
    => LET groups == Range(call.index[call.resource.id])
       IN /\ "visibility" \in DOMAIN call.result
          /\ call.result.visibility =
                IF groupPublic \in groups THEN "open"
                ELSE IF groupRegistered \in groups THEN "restricted"
                ELSE "private"

C11_Witness ==
    /\ call.op = "permissions.update_resource"
    /\ call.resource.id \in DOMAIN call.index
    /\ call.index[call.resource.id] = <<groupAdmin, groupRegistered, groupPublic>>
    /\ call.result.visibility = "open"

\* C12: every emitted row of a resource or attachment whose embargo record has
\* a release date in the past (here: before the run started, so in the past
\* whenever the row is made) has the visibility the record names for after the
\* embargo and carries none of the three embargo fields, with or without a
\* permission entry for the resource.
C12_LapsedEmbargoReleases ==
    \A b \in Batches : \A i \in RowIndices(b) :
        LET row == yielded[b].rows[i]
        IN \A u \in DOMAIN embargos :
              (/\ uri_to_id(u) = row.bulkrax_identifier
               /\ embargos[u].release_date < StartTime)
              => /\ "visibility" \in DOMAIN row
                 /\ row.visibility = embargos[u].visibility_after_embargo
                 /\ EmbargoFields \cap DOMAIN row = {}

\* C13: a resource or attachment with no permission entry and no embargo record
\* has visibility open after the indices are applied, and its emitted row
\* carries visibility open.
C13_DefaultVisibilityOpen ==
    LET plain(id) == id \notin DOMAIN permissions /\ id \notin DOMAIN embargos
        open(obj) == "visibility" \in DOMAIN obj /\ obj.visibility = "open"
    IN /\ \A k \in 1..Len(child_works) :
             plain(child_works[k].id) => open(child_works[k])
       /\ \A k \in 1..Len(child_work_filesets) :
             plain(child_work_filesets[k].id) => open(child_work_filesets[k])
       /\ \A k \in 1..Len(files_to_copy) :
             plain(files_to_copy[k].id) => open(files_to_copy[k])
       /\ \A b \in Batches : \A i \in RowIndices(b) :
             LET row == yielded[b].rows[i]
             IN (\A u \in DOMAIN permissions \cup DOMAIN embargos :
                    uri_to_id(u) # row.bulkrax_identifier)
                => open(row)

\* C14: ParentChildMapping.update_resource leaves the identifier unchanged and
\* yields as parents the union of the parents the resource had (from its
\* membership triples) and the ancestors the index holds for it: every parent
\* present before the call is present after it.
C14_ParentsOnlyGrow ==
    call.op = "parents.update_resource" =>
        LET before == IF HasAttr(call.resource, "parents")
                      THEN Range(call.resource.parents) ELSE {}
            indexed == IF call.resource.id \in DOMAIN call.index
                       THEN Range(call.index[call.resource.id]) ELSE {}
            after == IF HasAttr(call.result, "parents")
                     THEN Range(call.result.parents) ELSE {}
        IN /\ call.result.id = call.resource.id
           /\ before \subseteq after
           /\ after = before \cup indexed

\* C15: copy_files_concurrently cuts the file list into consecutive sub-groups
\* of SubGroupSize files; it returns no path of a sub-group that failed, also
\* not of the files copied before the failure, it returns the path of every
\* file of every sub-group that did not fail, once, and it returns normally.
C15_FailedSubGroupDropped ==
    call.op = "copy_files_concurrently" =>
        LET files == call.file_sets
            group(i) == (i - 1) \div SubGroupSize
            failed(g) ==
                \/ \E j \in 1..Len(files) : group(j) = g /\ files[j].id \in call.failing
                \/ g * SubGroupSize \in call.racing
            kept == {i \in 1..Len(files) : ~failed(group(i))}
        IN /\ ~call.raised
           /\ Len(call.result) = Cardinality(kept)
           /\ \A i \in 1..Len(files) :
                 i \in kept <=> \E k \in 1..Len(call.result) :
                                   call.result[k].name = files[i].file

C15_Witness ==
    /\ call.op = "copy_files_concurrently"
    /\ Len(call.file_sets) = 2 * SubGroupSize + 1
    /\ call.failing = {call.file_sets[SubGroupSize + 2].id}
    /\ call.racing = {}
    /\ Len(call.result) = SubGroupSize + 1

\* the attachment rows of a yielded batch
AttachmentRows(b) == {i \in RowIndices(b) : yielded[b].rows[i].model = "FileSet"}

\* C16: the rows of a yielded batch do not depend on the outcome of the copies:
\* every attachment handed to the copier has its row in the batch whatever the
\* copier returned, the csv of the archive has one line per row with the row's
\* values, and the archive has one member per path the copier returned, which
\* is every attachment's binary exactly when no sub-group of the batch failed.
C16_RowsIndependentOfCopies ==
    /\ \A k \in 1..Len(IF pc = "yield" THEN files_to_copy
                       ELSE IF pc = "yield_final" THEN child_work_filesets
                       ELSE <<>>) :
          LET file == (IF pc = "yield" THEN files_to_copy ELSE child_work_filesets)[k]
          IN \E i \in AttachmentRows(Len(yielded)) :
                /\ yielded[Len(yielded)].rows[i].bulkrax_identifier = uri_to_id(file.id)
                /\ yielded[Len(yielded)].rows[i].file = file.file
    /\ \A a \in 1..Len(archives) :
          LET b == yielded[a]
              failed == \E e \in error_log :
                           e.msg = "Error copying files in batch" /\ e.batch = b.batch
          IN /\ archives[a].batch_id = b.batch
             /\ Len(archives[a].csv.lines) = Len(b.rows)
             /\ \A i \in RowIndices(a) : \A k \in DOMAIN b.rows[i] :
                   archives[a].csv.lines[i][k] = b.rows[i][k]
             /\ Len(archives[a].files) = Len(b.new_paths)
             /\ \A k \in 1..Len(b.new_paths) :
                   /\ archives[a].files[k] = <<"files", "/">> \o b.new_paths[k].name
                   /\ \E i \in AttachmentRows(a) : b.rows[i].file = b.new_paths[k].name
             /\ failed <=> Len(archives[a].files) < Cardinality(AttachmentRows(a))
             /\ ~failed => Len(archives[a].files) = Cardinality(AttachmentRows(a))

C16_Witness ==
    \E a \in 1..Len(archives) :
        /\ Cardinality(AttachmentRows(a)) = SubGroupSize + 1
        /\ Len(archives[a].csv.lines) = SubGroupSize + 2
        /\ Len(archives[a].files) = 1

\* the number of paths returned in the first n batches
RECURSIVE PathCount(_)
PathCount(n) == IF n = 0 THEN 0 ELSE Len(yielded[n].new_paths) + PathCount(n - 1)

\* the number of attachment rows in the first n batches
RECURSIVE AttachmentRowCount(_)
AttachmentRowCount(n) ==
    IF n = 0 THEN 0 ELSE Cardinality(AttachmentRows(n)) + AttachmentRowCount(n - 1)

\* C17: when no copy of a file failed, then once the run is complete the number
\* of paths the copier returned over all batches is the number of attachment
\* rows emitted over all batches, and the file name of every attachment row is
\* the name of a returned path.
C17_PathsMatchAttachmentRows ==
    (Completed /\ \A e \in error_log : e.msg # "Unable to copy file")
    => /\ PathCount(Len(yielded)) = AttachmentRowCount(Len(yielded))
       /\ \A b \in Batches : \A i \in AttachmentRows(b) :
             \E b2 \in Batches : \E k \in 1..Len(yielded[b2].new_paths) :
                yielded[b2].new_paths[k].name = yielded[b].rows[i].file

\* C19: no yielded batch has a row whose bulkrax_identifier is empty, be it the
\* row of a regular resource, of an attachment or of a deferred resource: the
\* run stops with an error before such a batch is yielded.
C19_NoEmptyIdentifierYielded ==
    \A b \in Batches : \A i \in RowIndices(b) :
        yielded[b].rows[i].bulkrax_identifier # <<>>

\* C20: once writing the archive of batch N has failed in prepare_imports, the
\* error has left prepare_imports, and no batch with an index above N is ever
\* assembled, copied and yielded, or packaged.
C20_ArchiveErrorStopsTheRun ==
    \A e \in error_log :
        e.msg = "Error creating zipfile" =>
            /\ pc = "ZipError"
            /\ batch = e.batch
            /\ \A b \in Batches : yielded[b].batch <= e.batch
            /\ \A a \in 1..Len(archives) : archives[a].batch_id < e.batch

C20_Witness ==
    /\ pc = "ZipError"
    /\ resource_iter # <<>>
    /\ Len(archives) >= 1
    /\ \E e \in error_log : e.msg = "Error creating zipfile" /\ e.batch = Len(archives)

UpdateOps ==
    {"permissions.update_resource", "embargos.update_resource", "parents.update_resource"}

\* C21: update_resource of each of the three indices returns the resource it
\* was given (same identifier, every attribute it had still there), and when
\* the index has no entry for the resource's id the resource is returned as it
\* was: no field added, removed or altered.
C21_NoEntryNoChange ==
    call.op \in UpdateOps =>
        /\ call.result.id = call.resource.id
        /\ DOMAIN call.resource \subseteq DOMAIN call.result
        /\ call.resource.id \notin DOMAIN call.index => call.result = call.resource

C21_Witness ==
    /\ call.op = "embargos.update_resource"
    /\ DOMAIN call.index # {}
    /\ call.resource.id \notin DOMAIN call.index
    /\ call.result = call.resource

\* C22: a resource pulled from the stream is appended to the deferred list if
\* and only if its parents are not empty and one of them is not in the list of
\* emitted collections at that moment, and its row is appended to the current
\* batch if and only if not, unless the step ends the run with an error on an
\* object without a model: so a resource without parents is emitted, and one
\* with several parents is deferred as soon as one of them is unresolved.
C22_DeferredIffUnresolvedParent ==
    [][(pc = "assemble" /\ resource_iter' # resource_iter) =>
          LET pulled == parents_update_resource(parents, Head(resource_iter))
              unresolved ==
                  /\ HasAttr(pulled, "parents")
                  /\ pulled.parents # <<>>
                  /\ \E i \in 1..Len(pulled.parents) :
                        pulled.parents[i] \notin Range(collection_ids)
              deferred ==
                  /\ Len(child_works') = Len(child_works) + 1
                  /\ child_works'[Len(child_works')].id = pulled.id
              emitted ==
                  /\ Len(rows') > Len(rows)
                  /\ rows'[Len(rows) + 1].model # "FileSet"
                  /\ rows'[Len(rows) + 1].bulkrax_identifier = uri_to_id(pulled.id)
          IN /\ unresolved <=> deferred
             /\ emitted => ~unresolved
             /\ (~unresolved /\ pc' # "AttributeError") => emitted]_vars

C22_Witness ==
    \E k \in 1..Len(child_works) :
        /\ HasAttr(child_works[k], "model")
        /\ child_works[k].model = "Work"
        /\ Len(child_works[k].parents) >= 2
        /\ \E i \in 1..Len(child_works[k].parents) :
              child_works[k].parents[i] \in Range(collection_ids)
        /\ \E i \in 1..Len(child_works[k].parents) :
              child_works[k].parents[i] \notin Range(collection_ids)

\* C23: attachment rows count toward the threshold.  A resource is pulled into
\* a regular batch only while the number of rows of the batch, resource rows
\* and attachment rows alike, is below the batch size; once the number has
\* reached the batch size the only step is to close the batch: the copier is
\* run on the enqueued files and the batch is yielded with the rows as they
\* are and the paths the copier returned.
C23_AttachmentsCountTowardThreshold ==
    [][/\ (pc = "assemble" /\ resource_iter' # resource_iter)
             => Len(rows) < batch_size
       /\ (pc = "assemble" /\ Len(rows) >= batch_size)
             => /\ pc' = "yield"
                /\ Len(yielded') = Len(yielded) + 1
                /\ yielded'[Len(yielded')].rows = rows
                /\ yielded'[Len(yielded')].batch = batch
                /\ \E copied \in copy_files_concurrently(batch, files_to_copy) :
                      copied.data = yielded'[Len(yielded')].new_paths
                /\ UNCHANGED <<resource_iter, fileset_iter>>]_vars

C23_Witness ==
    /\ pc = "assemble"
    /\ Len(rows) = batch_size
    /\ batch_size >= 2
    /\ rows[Len(rows)].model = "FileSet"
    /\ resource_iter # <<>>

\* C24: the attachment pull for a resource takes from the attachment stream
\* exactly its longest prefix of attachments owned by the resource: what is
\* left is the rest of the stream, in order, starting with the first attachment
\* of another owner, and every attachment taken is enqueued for the batch or
\* kept with the deferred attachments, in stream order.
C24_MaximalPrefixTaken ==
    [][(pc = "assemble" /\ pc' = "assemble" /\ resource_iter' # resource_iter) =>
          LET id == Head(resource_iter).id
              n == Len(fileset_iter) - Len(fileset_iter')
              kept == SubSeq(files_to_copy', Len(files_to_copy) + 1,
                             Len(files_to_copy'))
                      \o SubSeq(child_work_filesets', Len(child_work_filesets) + 1,
                                Len(child_work_filesets'))
          IN /\ n >= 0
             /\ fileset_iter' = SubSeq(fileset_iter, n + 1, Len(fileset_iter))
             /\ \A k \in 1..n : fileset_iter[k].parents = id
             /\ fileset_iter' # <<>> => Head(fileset_iter').parents # id
             /\ Len(kept) = n
             /\ \A k \in 1..n : kept[k].id = fileset_iter[k].id]_vars

C24_Witness ==
    /\ pc = "assemble"
    /\ files_to_copy # <<>>
    /\ fileset_iter # <<>>
    /\ Head(fileset_iter).parents # files_to_copy[Len(files_to_copy)].parents
    /\ Len(fileset_iter) + Len(files_to_copy) = Len(get_filesets(graph))

\* the copy tasks of the pool that have not finished
Running == {i \in DOMAIN pool.tasks : pool.tasks[i].state \notin {"done", "failed"}}

\* C25: when a batch has been yielded, and when it has been packaged, every
\* sub-group copy task submitted for it has finished, with a result or with an
\* error.
C25_YieldedAfterAllCopies ==
    /\ \A b \in Batches : yielded[b].batch = pool.dest => Running = {}
    /\ \A a \in 1..Len(archives) : archives[a].batch_id = pool.dest => Running = {}

C25_Witness ==
    /\ \E b \in Batches : yielded[b].batch = pool.dest
    /\ \E i, j \in DOMAIN pool.tasks :
          pool.tasks[i].state = "done" /\ pool.tasks[j].state = "failed"

\* C26 as stated: no resource or attachment of batch N+1 is pulled before the
\* packaging of batch N has returned.  While the batch with index batch is
\* assembled its rows are of that batch, and the deferred resources are of the
\* final batch, whose index is above it.
C26_PulledOnlyAfterPackaging ==
    pc = "assemble" =>
        /\ rows # <<>> => Len(archives) >= batch
        /\ child_works # <<>> => Len(archives) >= batch + 1

\* C26 amended: no resource or attachment is pulled from a stream and no step
\* of the copier is made while a yielded batch waits for its packaging: such a
\* step is made for the batch being assembled, index N+1, only when the batches
\* 0..N have all been yielded and packaged.  (A deferred resource is pulled
\* then too, though it is emitted in the final batch.)
C26_NoStepBeforePackaging ==
    [][(resource_iter' # resource_iter \/ fileset_iter' # fileset_iter \/ pool' # pool)
          => /\ Len(yielded) = batch
             /\ Len(archives) = batch
             /\ \A a \in 1..Len(archives) :
                   archives[a].batch_id = a - 1 /\ yielded[a].batch = a - 1]_vars

C26_Witness ==
    /\ pc = "copying"
    /\ batch >= 1
    /\ Running # {}
    /\ rows # <<>>
    /\ Len(archives) = batch

\* C27: the permissions, embargo and parent/child indices are what was built
\* from the store before the assembly started, in every state of the run:
\* no update_resource call and no step of the assembler or of the copier adds,
\* removes or changes an entry.
C27_IndicesNeverChange ==
    /\ permissions = get_permissions(graph)
    /\ embargos = get_embargos(graph)
    /\ parents = get_parents(graph)

C27_Witness ==
    /\ Completed
    /\ DOMAIN parents # {}
    /\ \E b \in Batches : \E i \in RowIndices(b) :
          /\ yielded[b].rows[i].model # "FileSet"
          /\ \A u \in DOMAIN parents : uri_to_id(u) # yielded[b].rows[i].bulkrax_identifier
    /\ \E b \in Batches : \E i \in RowIndices(b) :
          \E u \in DOMAIN parents : uri_to_id(u) = yielded[b].rows[i].bulkrax_identifier

\* C28: in every step made while a copy task of the worker pool has not
\* finished, the deferred resources, the deferred attachments, the list of
\* emitted collections, the current rows and the enqueued file list stay as
\* they are, and every task holds the slice of the enqueued list it was
\* submitted with.
C28_AssemblerStateFrozenWhileCopying ==
    [][(pc \in {"copying", "copying_final"} /\ Running # {})
          => /\ UNCHANGED <<child_works, child_work_filesets, collection_ids, rows,
                            files_to_copy>>
             /\ DOMAIN pool'.tasks = DOMAIN pool.tasks
             /\ \A i \in DOMAIN pool.tasks :
                   /\ pool'.tasks[i].files = pool.tasks[i].files
                   /\ pool'.tasks[i].files = sub_group(enqueued', i)]_vars

C28_Witness ==
    /\ pc = "copying"
    /\ Running # {}
    /\ \E i \in DOMAIN pool.tasks : pool.tasks[i].state = "copying"
    /\ rows # <<>>
    /\ files_to_copy # <<>>
    /\ child_works # <<>>
    /\ child_work_filesets # <<>>

\* the resources of the stream none of whose triples matched the mapping
Unmapped == {i \in 1..Len(resource_stream(graph)) :
                DOMAIN resource_stream(graph)[i] = {"id", "admin_set"}}

\* C29: the run does not stop with an error on a resource none of whose
\* triples match the field mapping, and when the run has ended a row has been
\* emitted for it that consists of its identifier and the visibility "open".
C29_UnmappedResourceEmitted ==
    /\ Unmapped # {} => pc # "AttributeError"
    /\ Completed =>
          \A u \in Unmapped : \E b \in Batches : \E i \in RowIndices(b) :
              yielded[b].rows[i] =
                  [bulkrax_identifier |-> uri_to_id(resource_stream(graph)[u].id),
                   visibility |-> "open"]

\* the objects of the triples with predicate p, in the order of the triples
RECURSIVE ObjectsOf(_, _)
ObjectsOf(triples, p) ==
    IF triples = <<>> THEN <<>>
    ELSE (IF Head(triples).p = p THEN <<Head(triples).o>> ELSE <<>>)
         \o ObjectsOf(Tail(triples), p)

\* C30: the object make_resource returns has the identifier passed in; for
\* every mapped predicate that some triple has, the named field holds the list
\* of the objects of all matching triples in triple order when the field is
\* multi-valued and the object of the last matching triple when it is
\* single-valued; it has no field for a mapped predicate no triple has, and
\* none for an unmapped predicate.
C30_FieldsFromMatchingTriples ==
    call.op = "make_resource" =>
        LET made == call.result
            matched == {p \in DOMAIN call.mapping : ObjectsOf(call.triples, p) # <<>>}
        IN /\ made.id = call.id
           /\ DOMAIN made = {"id", "admin_set"} \cup {call.mapping[p][1] : p \in matched}
           /\ \A p \in matched :
                 LET objects == ObjectsOf(call.triples, p)
                     field_name == call.mapping[p][1]
                 IN IF call.mapping[p][2]
                    THEN made[field_name] = objects
                    ELSE made[field_name] = objects[Len(objects)]

C30_Witness ==
    /\ call.op = "make_resource"
    /\ ObjectsOf(call.triples, "title") = << <<"a">>, <<"b">> >>
    /\ ObjectsOf(call.triples, "creator") = << <<"b">>, <<"a">> >>
    /\ call.result.title = <<"b">>
    /\ call.result.creator = << <<"b">>, <<"a">> >>

\* the places of the rows with a bare identifier among the rows yielded
RowsOf(id) ==
    {<<b, i>> \in Batches \X (1..(MaxResources + MaxCopyFiles)) :
        i \in RowIndices(b) /\ yielded[b].rows[i].bulkrax_identifier = id}

\* C31: when the run has ended, every resource of the resource stream has
\* exactly one row among the rows of all yielded batches, whether it was
\* deferred or not: none is lost and none is emitted twice.
C31_EachResourceEmittedOnce ==
    Completed =>
        \A k \in 1..Len(resource_stream(graph)) :
            Cardinality(RowsOf(uri_to_id(resource_stream(graph)[k].id))) = 1

C31_Witness ==
    /\ Completed
    /\ Len(resource_stream(graph)) >= 3
    /\ \E b \in FinalBatches : Len(yielded[b].rows) >= 2
    /\ \E b \in RegularBatches : yielded[b].rows # <<>>

\* C32: when the run has ended, every attachment of the attachment stream
\* whose owner is a resource of the resource stream has exactly one row among
\* the rows of all yielded batches, also when an attachment whose owner is not
\* in the resource stream is ahead of it in the attachment stream.
C32_EachOwnedAttachmentEmittedOnce ==
    Completed =>
        \A k \in 1..Len(get_filesets(graph)) :
            LET file == get_filesets(graph)[k]
            IN (\E r \in 1..Len(resource_stream(graph)) :
                   resource_stream(graph)[r].id = file.parents)
               => Cardinality(RowsOf(uri_to_id(file.id))) = 1

\* no copy of a file failed in the copier call for the batch in hand
EveryCopySucceeded ==
    \A e \in error_log : ~(e.msg = "Unable to copy file" /\ e.batch = pool.dest)

\* C33: when every single copy succeeded, the copier returns one path per
\* file reference it was called with, whatever the order of the steps of the
\* worker threads, also when the destination directory did not exist and more
\* than one sub-group was submitted.
C33_OnePathPerFile ==
    (pc \in {"copying", "copying_final"} /\ may_return(pool.tasks) /\ EveryCopySucceeded)
        => Len(pool.data) = Len(enqueued)

\* the generator has returned or an error has left it
Terminated == pc \in {"finished", "AssertionError", "AttributeError", "ZipError"}

\* C34: for finite streams and every batch size the constructor takes, size 0
\* included, the run of prepare_import_batches ends.
C34_Terminates == <>Terminated

\* C35: no yielded batch has an empty list of rows.
C35_NoEmptyBatchYielded ==
    \A b \in Batches : yielded[b].rows # <<>>

\* C36: the indices of the batches yielded are 0, 1, 2, ... in the order of
\* the yields, without a gap and without a repeat, and a batch of deferred
\* resources is the last one yielded, so it has the largest index.
C36_BatchIndicesCountUp ==
    /\ \A b \in Batches : yielded[b].batch = b - 1
    /\ \A b \in FinalBatches : b = Len(yielded)

C36_Witness ==
    /\ Completed
    /\ Len(yielded) >= 3
    /\ FinalBatches # {}

\* the bare identifiers of the collection rows appended to a regular batch
\* so far: those of the batches yielded and those of the batch being assembled
CollectionRowIds ==
    {yielded[b].rows[i].bulkrax_identifier :
        <<b, i>> \in {x \in RegularBatches \X (1..(MaxResources + MaxCopyFiles)) :
                        /\ x[2] \in RowIndices(x[1])
                        /\ yielded[x[1]].rows[x[2]].model = "Collection"}}
    \cup {rows[i].bulkrax_identifier :
             i \in {j \in 1..Len(rows) : rows[j].model = "Collection"}}

\* C37: after every step the list of emitted collections holds, once each, the
\* ids of exactly the collections whose row has been appended to a regular
\* batch; no id in it is that of a work, of an attachment or of a deferred
\* resource; and the step has removed no entry.
C37_EmittedCollectionsExact ==
    [][/\ {uri_to_id(collection_ids'[k]) : k \in 1..Len(collection_ids')}
              = CollectionRowIds'
       /\ Cardinality(Range(collection_ids')) = Len(collection_ids')
       /\ Range(collection_ids') \subseteq graph.collections
       /\ \A k \in 1..Len(child_works') :
             child_works'[k].id \notin Range(collection_ids')
       /\ \A k \in 1..Len(get_filesets(graph)) :
             get_filesets(graph)[k].id \notin Range(collection_ids')
       /\ Len(collection_ids') >= Len(collection_ids)
       /\ SubSeq(collection_ids', 1, Len(collection_ids)) = collection_ids]_vars

C37_Witness ==
    /\ collection_ids # <<>>
    /\ \E k \in 1..Len(child_works) :
          HasAttr(child_works[k], "model") /\ child_works[k].model = "Collection"
    /\ \E b \in RegularBatches : \E i \in RowIndices(b) :
          yielded[b].rows[i].model = "Work"

\* the file references the tasks of the worker pool were submitted with, in
\* the order of the sub-groups
RECURSIVE HandedFrom(_)
HandedFrom(i) ==
    IF i \in DOMAIN pool.tasks
    THEN pool.tasks[i].files \o HandedFrom(i + SubGroupSize)
    ELSE <<>>

Handed == HandedFrom(0)

HandedRows == [i \in 1..Len(Handed) |-> format_row(Handed[i])]

IsAttachmentRow(row) == row.model = "FileSet"

\* C38: the file references the copier is called with for a regular batch are
\* the attachments of the attachment rows of that batch, in row order; for the
\* final batch they are the deferred attachments, which are the attachment
\* rows of that batch; and none of them has a row in a batch yielded before,
\* so no attachment is handed to the copier in two batches.
C38_CopierGetsTheBatchAttachments ==
    /\ pc \in {"copying", "yield"} =>
          /\ HandedRows = SelectSeq(rows, IsAttachmentRow)
          /\ pc = "yield" => yielded[Len(yielded)].rows = rows
    /\ pc \in {"copying_final", "yield_final"} =>
          /\ Handed = child_work_filesets
          /\ pc = "yield_final" =>
                HandedRows = SelectSeq(yielded[Len(yielded)].rows, IsAttachmentRow)
    /\ pc \in {"copying", "copying_final"} =>
          \A k \in 1..Len(Handed) : RowsOf(uri_to_id(Handed[k].id)) = {}

C38_Witness ==
    /\ pc = "yield_final"
    /\ Handed # <<>>
    /\ \E b \in RegularBatches : AttachmentRows(b) # {}

====
